---- MODULE Spec2Model ----
(***************************************************************************)
(* Model of the IPTC photo metadata checkers:                              *)
(*   scripts/ipmdchecker.py            check_mainpmd / check_pmdstructure  *)
(*   scripts/checkfor_missing_props.py check_mainpmd / check_pmdstructure  *)
(*                                     run_test3 and the MAIN loop         *)
(*   scripts/ipmdchecker2.py           investigate_mainpmd /               *)
(*                                     investigate_ipmdstructure           *)
(*                                                                         *)
(* Strings are sequences of fragments (a fragment is one character or one  *)
(* indivisible word); concatenation is \o.  A JSON value is a record       *)
(*   [t |-> "I", v |-> n]     a number                                     *)
(*   [t |-> "T", s |-> str]   a string                                     *)
(*   [t |-> "O", kv |-> <<<<key, value>>, ...>>]  a dict, insertion order  *)
(*   [t |-> "L", e |-> <<value, ...>>]            a list                   *)
(***************************************************************************)
EXTENDS Integers, Sequences, FiniteSets, TLC

VARIABLES
    ipmdref,        \* the reference tree, json.load(IPTCPMDREFFP)[0]
    ipmdtest,       \* the candidate tree, json.load(test_json_fp)[0]
    comparevalues,  \* the comparevalues argument
    pc,             \* "ready" | "done" | "fault"
    script,         \* which entry point ran
    out,            \* the lines appended to the result files, in order
    err,            \* the exception that ended the run, "" if none
    techguide,      \* the guide of ipmdchecker2.py (config/iptc-pmd-techguide.yml)
    foundtest3images,   \* the batch: what ExifTool leaves as the JSON file of each image
    position,       \* the number of images run_test3 has returned for
    testresults,    \* the lines of each image's own result file
    backup,         \* the images moved to the backup directory
    tagid,          \* the etpropname argument of the name resolver
    inctx,          \* the instructure argument of the name resolver
    resolved        \* what is_iptcpmdpropname and get_iptcpropname return for them

batchvars == <<foundtest3images, position, testresults, backup>>
namevars == <<tagid, inctx, resolved>>

vars == <<ipmdref, ipmdtest, comparevalues, pc, script, out, err, techguide,
          foundtest3images, position, testresults, backup, tagid, inctx, resolved>>

(* ---------------------------------------------------------------------- *)
(* Bounds                                                                  *)
(* ---------------------------------------------------------------------- *)
MaxVal == 2         \* numbers in the trees are 1..MaxVal
MaxListLen == 2     \* reference lists have 1..MaxListLen elements
MaxEdits == 2       \* a candidate differs from its reference by at most this many edits
MaxFiles == 2       \* a batch has 1..MaxFiles images
MaxTagLen == 3      \* a tag given to the name resolver has 1..MaxTagLen fragments

(* ---------------------------------------------------------------------- *)
(* JSON values                                                             *)
(* ---------------------------------------------------------------------- *)
Num(n) == [t |-> "I", v |-> n]
Txt(s) == [t |-> "T", s |-> s]
Obj(kv) == [t |-> "O", kv |-> kv]
Lst(e) == [t |-> "L", e |-> e]

IsDict(x) == x.t = "O"
IsList(x) == x.t = "L"
IsPlain(x) == x.t \in {"T", "I"}

Keys(o) == {o.kv[i][1] : i \in 1..Len(o.kv)}
Get(o, k) == LET i == CHOOSE j \in 1..Len(o.kv) : o.kv[j][1] = k IN o.kv[i][2]

\* str.replace(":", "_")
Replace(s) == [i \in 1..Len(s) |-> IF s[i] = ":" THEN "_" ELSE s[i]]

\* str.split('|')[0]
RECURSIVE SplitFirst(_)
SplitFirst(s) ==
    IF s = <<>> \/ Head(s) = "|" THEN <<>> ELSE <<Head(s)>> \o SplitFirst(Tail(s))

\* Python's  sub in s  for two strings
IsSubstr(sub, s) ==
    \E i \in 0..(Len(s) - Len(sub)) : \A j \in 1..Len(sub) : s[i + j] = sub[j]

\* str(idx) for a small non-negative integer
Digits == <<"0", "1", "2", "3", "4", "5", "6", "7", "8", "9">>
Str(n) == IF n < 10 THEN <<Digits[n + 1]>> ELSE <<Digits[(n \div 10) + 1], Digits[(n % 10) + 1]>>

\* Python's  key in x : "yes", "no", or the exception raised
PyIn(key, x) ==
    CASE x.t = "O" -> IF key \in Keys(x) THEN "yes" ELSE "no"
      [] x.t = "L" -> IF \E i \in 1..Len(x.e) : x.e[i] = Txt(key) THEN "yes" ELSE "no"
      [] x.t = "T" -> IF IsSubstr(key, x.s) THEN "yes" ELSE "no"
      [] OTHER -> "TypeError"

\* Python's  x[idx]  for a 0-based integer index: the exception raised, "" if none
PyIndexErr(x, idx) ==
    CASE x.t = "L" -> IF idx < Len(x.e) THEN "" ELSE "IndexError"
      [] x.t = "T" -> IF idx < Len(x.s) THEN "" ELSE "IndexError"
      [] x.t = "O" -> "KeyError"
      [] OTHER -> "TypeError"

PyIndex(x, idx) == IF x.t = "L" THEN x.e[idx + 1] ELSE Txt(<<x.s[idx + 1]>>)

(* ---------------------------------------------------------------------- *)
(* The investigation guide (config/pmdinvestigationguide.yml)              *)
(* ---------------------------------------------------------------------- *)
TagLoc == <<"x", ":", "l">>       \* a top level property
TagCre == <<"x", ":", "c">>       \* a top level property
TagA == <<"a">>                   \* a property of a structure
TagB == <<"b">>                   \* a property of a structure
TagComment == <<"File", ":", "Comment">>
TagExtra == <<"z">>               \* a tag no guide and no reference knows

pmdguide ==
    [topwithprefix |->
        (<<"x", "_", "l">> :> [label |-> <<"L", "|", "l">>]) @@
        (<<"x", "_", "c">> :> [label |-> <<"C">>]),
     instructure |->
        (<<"a">> :> [label |-> <<"A", "|", "a">>]) @@
        (<<"b">> :> [label |-> <<"B">>])]

\* get_iptcpropname returning the whole label
get_iptcpropname_wholelabel(etpropname, instructure) ==
    LET testetpropname == Replace(etpropname)
        groupname == IF instructure THEN "instructure" ELSE "topwithprefix"
    IN  IF testetpropname \in DOMAIN pmdguide[groupname]
        THEN pmdguide[groupname][testetpropname].label
        ELSE etpropname

get_iptcpropname(etpropname, instructure) ==
    LET testetpropname == Replace(etpropname)
        groupname == IF instructure THEN "instructure" ELSE "topwithprefix"
    IN  IF testetpropname \in DOMAIN pmdguide[groupname]
        THEN SplitFirst(pmdguide[groupname][testetpropname].label)
        ELSE etpropname

\* is_iptcpmdpropname looking the tag up in both groups, whatever instructure is
is_iptcpmdpropname_anygroup(etpropname, instructure) ==
    LET testetpropname == Replace(etpropname)
    IN  testetpropname \in DOMAIN pmdguide["topwithprefix"] \cup DOMAIN pmdguide["instructure"]

is_iptcpmdpropname(etpropname, instructure) ==
    LET testetpropname == Replace(etpropname)
        groupname == IF instructure THEN "instructure" ELSE "topwithprefix"
    IN  testetpropname \in DOMAIN pmdguide[groupname]

(* ---------------------------------------------------------------------- *)
(* Findings: the lines written by append_line2file                         *)
(* ---------------------------------------------------------------------- *)
Missing(path) == [kind |-> "MISSING", path |-> path]
Changed(path, val) == [kind |-> "CHANGED", path |-> path, val |-> val]
Comment(val) == [kind |-> "COMMENT", val |-> val]

\* the result of a (partial) run: the lines written and the exception, if any
Ok(lines) == [out |-> lines, err |-> ""]
Raise(e) == [out |-> <<>>, err |-> e]
Then(r, rest) == IF r.err # "" THEN r ELSE [out |-> r.out \o rest.out, err |-> rest.err]

\* teststru[refpropname] once  refpropname in teststru  held; a value that
\* cannot be subscripted by a string stands for the TypeError it raises
NotSubscriptable == [t |-> "X"]
Subscript(teststru, refpropname) ==
    IF teststru.t = "O" THEN Get(teststru, refpropname) ELSE NotSubscriptable

(* ---------------------------------------------------------------------- *)
(* ipmdchecker.py: check_pmdstructure and check_mainpmd                    *)
(* ---------------------------------------------------------------------- *)

\* the comparevalues loop over the items of a list
RECURSIVE ListValues(_, _, _, _)
ListValues(iptcname, refpropval, testpropval, idx) ==
    IF idx >= Len(refpropval.e) THEN Ok(<<>>)
    ELSE LET refpropval2 == refpropval.e[idx + 1]
             e == PyIndexErr(testpropval, idx)
         IN  IF e # "" THEN Raise(e)
             ELSE LET testpropval2 == PyIndex(testpropval, idx)
                      line == IF IsPlain(refpropval2) /\ testpropval2 # refpropval2
                              THEN <<Changed(iptcname, testpropval2)>>
                              ELSE <<>>
                  IN  Then(Ok(line), ListValues(iptcname, refpropval, testpropval, idx + 1))

\* the displayed index of the list item at 0-based position idx
ListIndexShown(idx) == Str(idx)

RECURSIVE check_pmdstructure(_, _, _, _)
RECURSIVE ListStructs(_, _, _, _, _)
RECURSIVE CheckValue(_, _, _, _, _)
RECURSIVE StructKeys(_, _, _, _, _)

\* the second loop over a list: recurse into the items that are dicts
ListStructs(iptcnames, refpropval, testpropval, comparevals, idx) ==
    IF idx >= Len(refpropval.e) THEN Ok(<<>>)
    ELSE LET refobj == refpropval.e[idx + 1]
             rest == ListStructs(iptcnames, refpropval, testpropval, comparevals, idx + 1)
             e == PyIndexErr(testpropval, idx)
         IN  IF ~IsDict(refobj) THEN rest
             ELSE IF e # "" THEN Raise(e)
             ELSE Then(check_pmdstructure(iptcnames \o <<"[">> \o ListIndexShown(idx) \o <<"]">>,
                                          refobj, PyIndex(testpropval, idx), comparevals),
                       rest)

\* MissingLine naming the property without the names of its parents
MissingLine_noparents(iptcname, iptcnames) == Ok(<<Missing(iptcname)>>)

\* the MISSING line of a property the candidate lacks
MissingLine(iptcname, iptcnames) == Ok(<<Missing(iptcnames)>>)

\* PlainValue with the comparison the wrong way round
PlainValue_inverted(iptcnames, refpropval, testpropval) ==
    IF testpropval = NotSubscriptable THEN Raise("TypeError")
    ELSE IF testpropval = refpropval THEN Ok(<<Changed(iptcnames, testpropval)>>)
    ELSE Ok(<<>>)

\* the plain value comparison
PlainValue(iptcnames, refpropval, testpropval) ==
    IF testpropval = NotSubscriptable THEN Raise("TypeError")
    ELSE IF testpropval # refpropval THEN Ok(<<Changed(iptcnames, testpropval)>>)
    ELSE Ok(<<>>)

\* the body of  if refpropname in teststru:  for a dict, a list and a plain value
CheckValue(iptcname, iptcnames, refpropval, testpropval, comparevals) ==
    CASE IsDict(refpropval) ->
            IF testpropval = NotSubscriptable THEN Raise("TypeError")
            ELSE check_pmdstructure(iptcnames, refpropval, testpropval, comparevals)
      [] IsList(refpropval) ->
            Then(IF comparevals THEN ListValues(iptcname, refpropval, testpropval, 0) ELSE Ok(<<>>),
                 ListStructs(iptcnames, refpropval, testpropval, comparevals, 0))
      [] IsPlain(refpropval) /\ comparevals -> PlainValue(iptcnames, refpropval, testpropval)
      [] OTHER -> Ok(<<>>)

\* the loop  for refpropname in refstru , from the i-th key on
StructKeys(parent_propnames, refstru, teststru, comparevals, i) ==
    IF i > Len(refstru.kv) THEN Ok(<<>>)
    ELSE LET refpropname == refstru.kv[i][1]
             rest == StructKeys(parent_propnames, refstru, teststru, comparevals, i + 1)
             iptcname == get_iptcpropname(refpropname, TRUE)
             iptcnames == parent_propnames \o <<"-", ">">> \o iptcname
             found == PyIn(refpropname, teststru)
         IN  IF ~is_iptcpmdpropname(refpropname, TRUE) THEN rest
             ELSE IF found = "TypeError" THEN Raise("TypeError")
             ELSE IF found = "yes"
                  THEN Then(CheckValue(iptcname, iptcnames, refstru.kv[i][2],
                                       Subscript(teststru, refpropname), comparevals),
                            rest)
                  ELSE Then(MissingLine(iptcname, iptcnames), rest)

check_pmdstructure(parent_propnames, refstru, teststru, comparevals) ==
    StructKeys(parent_propnames, refstru, teststru, comparevals, 1)

\* the loop  for refpropname in ipmdref  of check_mainpmd, from the i-th key on
RECURSIVE MainKeys(_, _, _, _)
MainKeys(ref, test, comparevals, i) ==
    IF i > Len(ref.kv) THEN Ok(<<>>)
    ELSE LET refpropname == ref.kv[i][1]
             rest == MainKeys(ref, test, comparevals, i + 1)
             iptcname == get_iptcpropname(refpropname, FALSE)
             found == PyIn(refpropname, test)
         IN  IF ~is_iptcpmdpropname(refpropname, FALSE) THEN rest
             ELSE IF found = "TypeError" THEN Raise("TypeError")
             ELSE IF found = "yes"
                  THEN Then(CheckValue(iptcname, iptcname, ref.kv[i][2],
                                       Subscript(test, refpropname), comparevals),
                            rest)
                  ELSE Then(MissingLine(iptcname, iptcname), rest)

\* the COMMENT line of check_mainpmd, an f-string that takes a value of any type
CommentNote(test) ==
    IF PyIn(TagComment, test) = "yes" THEN Ok(<<Comment(Get(test, TagComment))>>) ELSE Ok(<<>>)

check_mainpmd(ref, test, comparevals) ==
    Then(CommentNote(test), MainKeys(ref, test, comparevals, 1))

(* ---------------------------------------------------------------------- *)
(* checkfor_missing_props.py: check_pmdstructure and check_mainpmd         *)
(* ---------------------------------------------------------------------- *)

is_registeredpropname(etpropname, instructure) ==
    LET testetpropname == Replace(etpropname)
        groupname == IF instructure THEN "instructure" ELSE "topwithprefix"
    IN  testetpropname \in DOMAIN pmdguide[groupname]

\* Python's  for testobj in x : the exception raised, "" if none
PyIterErr(x) == IF x.t \in {"L", "O", "T"} THEN "" ELSE "TypeError"

\* the items  for testobj in x  visits
PyIter(x) ==
    CASE x.t = "L" -> x.e
      [] x.t = "O" -> [i \in 1..Len(x.kv) |-> Txt(x.kv[i][1])]
      [] OTHER -> [i \in 1..Len(x.s) |-> Txt(<<x.s[i]>>)]

RECURSIVE cmp_check_pmdstructure(_, _, _)
RECURSIVE cmp_TestObjs(_, _, _, _)
RECURSIVE cmp_StructKeys(_, _, _, _)

\* the loop  for testobj in teststru[propname] , listindex counting from 1
cmp_TestObjs(iptcnames, refobj, testobjs, listindex) ==
    IF listindex > Len(testobjs) THEN Ok(<<>>)
    ELSE Then(cmp_check_pmdstructure(iptcnames \o <<"[">> \o Str(listindex) \o <<"]">>,
                                     refobj, testobjs[listindex]),
              cmp_TestObjs(iptcnames, refobj, testobjs, listindex + 1))

\* the body of  if propname in teststru:
cmp_CheckValue(iptcnames, propval, testpropval) ==
    CASE IsDict(propval) ->
            IF testpropval = NotSubscriptable THEN Raise("TypeError")
            ELSE cmp_check_pmdstructure(iptcnames, propval, testpropval)
      [] IsList(propval) ->
            IF Len(propval.e) = 0 THEN Raise("IndexError")
            ELSE IF ~IsDict(propval.e[1]) THEN Ok(<<>>)
            ELSE IF testpropval = NotSubscriptable \/ PyIterErr(testpropval) # "" THEN Raise("TypeError")
            ELSE cmp_TestObjs(iptcnames, propval.e[1], PyIter(testpropval), 1)
      [] OTHER -> Ok(<<>>)

cmp_StructKeys(parent_propnames, refstru, teststru, i) ==
    IF i > Len(refstru.kv) THEN Ok(<<>>)
    ELSE LET propname == refstru.kv[i][1]
             rest == cmp_StructKeys(parent_propnames, refstru, teststru, i + 1)
             iptcname == get_iptcpropname(propname, TRUE)
             iptcnames == parent_propnames \o <<"-", ">">> \o iptcname
             found == PyIn(propname, teststru)
         IN  IF ~is_registeredpropname(propname, TRUE) THEN rest
             ELSE IF found = "TypeError" THEN Raise("TypeError")
             ELSE IF found = "yes"
                  THEN Then(cmp_CheckValue(iptcnames, refstru.kv[i][2], Subscript(teststru, propname)),
                            rest)
                  ELSE Then(Ok(<<Missing(iptcnames)>>), rest)

cmp_check_pmdstructure(parent_propnames, refstru, teststru) ==
    cmp_StructKeys(parent_propnames, refstru, teststru, 1)

RECURSIVE cmp_MainKeys(_, _, _)
cmp_MainKeys(ref, test, i) ==
    IF i > Len(ref.kv) THEN Ok(<<>>)
    ELSE LET propname == ref.kv[i][1]
             rest == cmp_MainKeys(ref, test, i + 1)
             iptcname == get_iptcpropname(propname, FALSE)
             found == PyIn(propname, test)
         IN  IF ~is_registeredpropname(propname, FALSE) THEN rest
             ELSE IF found = "TypeError" THEN Raise("TypeError")
             ELSE IF found = "yes"
                  THEN Then(cmp_CheckValue(iptcname, ref.kv[i][2], Subscript(test, propname)), rest)
                  ELSE Then(Ok(<<Missing(iptcname)>>), rest)

\* the COMMENT line of check_mainpmd:  "COMMENT in the file: " + ipmdtest['File:Comment']
\* raises TypeError when the comment is no string
cmp_CommentNote(test) ==
    IF PyIn(TagComment, test) # "yes" THEN Ok(<<>>)
    ELSE IF Get(test, TagComment).t # "T" THEN Raise("TypeError")
    ELSE Ok(<<Comment(Get(test, TagComment))>>)

cmp_check_mainpmd(ref, test) ==
    Then(cmp_CommentNote(test), cmp_MainKeys(ref, test, 1))

(* ---------------------------------------------------------------------- *)
(* ipmdchecker2.py: investigate_ipmdstructure and investigate_mainpmd      *)
(* ---------------------------------------------------------------------- *)
\* a guide is [ipmd_top |-> <<<<id, descriptor>>, ...>>,
\*             ipmd_struct |-> [structure id -> <<<<id, descriptor>>, ...>>]]
NoGuide == [ipmd_top |-> <<>>, ipmd_struct |-> <<>>]

Row(cells) == [kind |-> "ROW", cells |-> cells]
TextLine(msg) == [kind |-> "TEXT", msg |-> msg]

\* ipmdprop[name] if 'name' in ipmdprop, else the default
Field(ipmdprop, name, default) == IF name \in DOMAIN ipmdprop THEN ipmdprop[name] ELSE default

EmptyStr == Txt(<<>>)

\* the structure to investigate below a property: its dataformat, unless AltLang
InvStructId(ipmdprop) ==
    IF Field(ipmdprop, "datatype", "xxx") = "struct" /\ Field(ipmdprop, "dataformat", "") # "AltLang"
    THEN Field(ipmdprop, "dataformat", "")
    ELSE ""

\* the datatype after the AltLang workaround
DataType(ipmdprop) ==
    IF Field(ipmdprop, "datatype", "xxx") = "struct" /\ Field(ipmdprop, "dataformat", "") = "AltLang"
    THEN "string"
    ELSE Field(ipmdprop, "datatype", "xxx")

\* the XMP column of a row of a structure: [keymsg, xmpvalue, err]
StructXmp(ettag, teststruct) ==
    IF IsList(teststruct)
    THEN LET found == [i \in 1..Len(teststruct.e) |-> PyIn(ettag, teststruct.e[i])]
         IN  IF \E i \in 1..Len(found) : found[i] = "TypeError"
             THEN [keymsg |-> <<>>, xmpvalue |-> EmptyStr, err |-> "TypeError"]
             ELSE [keymsg |-> IF \E i \in 1..Len(found) : found[i] = "yes" THEN <<"found">> ELSE <<"MISSING">>,
                   xmpvalue |-> EmptyStr, err |-> ""]
    ELSE LET found == PyIn(ettag, teststruct)
         IN  CASE found = "TypeError" -> [keymsg |-> <<>>, xmpvalue |-> EmptyStr, err |-> "TypeError"]
               [] found = "no" -> [keymsg |-> <<"MISSING">>, xmpvalue |-> EmptyStr, err |-> ""]
               [] OTHER ->
                    IF IsDict(teststruct)
                    THEN [keymsg |-> <<"found">>, xmpvalue |-> Get(teststruct, ettag), err |-> ""]
                    ELSE [keymsg |-> <<>>, xmpvalue |-> EmptyStr, err |-> "TypeError"]

RECURSIVE investigate_ipmdstructure(_, _, _, _, _, _, _)
RECURSIVE StructProps(_, _, _, _, _, _, _, _)

\* the loop  for ipmdpropid in refstru , from the i-th property on
StructProps(parent_propnames, ugtopic, parent_so, level, refstru, teststruct, guide, i) ==
    IF i > Len(refstru) THEN Ok(<<>>)
    ELSE LET ipmdprop == refstru[i][2]
             label == Field(ipmdprop, "label", <<"UNKNOWN-ERROR">>)
             sortorder == Field(ipmdprop, "sortorder", <<"xxx">>)
             invstructid == InvStructId(ipmdprop)
             names == IF level = 2 THEN parent_propnames \o <<label, <<"x">>>>
                      ELSE IF level = 3 THEN parent_propnames \o <<label>>
                      ELSE <<>>
             head == <<ugtopic, parent_so \o <<"-">> \o sortorder>> \o names \o <<<<"not spec">>>>
             x == IF "etTag" \in DOMAIN ipmdprop
                  THEN StructXmp(ipmdprop.etTag, teststruct)
                  ELSE [keymsg |-> <<"not spec">>, xmpvalue |-> EmptyStr, err |-> ""]
             text == IF "etTag" \in DOMAIN ipmdprop
                     THEN <<TextLine(x.keymsg \o <<" its corresponding XMP property">>)>>
                     ELSE <<>>
             row == Row(head \o <<x.keymsg, <<"---">>>>)
             below == IF invstructid # ""
                      THEN investigate_ipmdstructure(parent_propnames \o <<label>>, ugtopic,
                                                     parent_so \o <<"-">> \o sortorder,
                                                     level + 1, invstructid, x.xmpvalue, guide)
                      ELSE Ok(<<>>)
         IN  IF x.err # "" THEN Raise(x.err)
             ELSE Then(Ok(text \o <<row>>),
                       Then(below,
                            StructProps(parent_propnames, ugtopic, parent_so, level, refstru,
                                        teststruct, guide, i + 1)))

\* investigate_ipmdstructure supporting one level more
investigate_ipmdstructure_level4(parent_propnames, ugtopic, parent_so, level, structid, teststruct, guide) ==
    IF level < 2 \/ level > 4 THEN Ok(<<>>)
    ELSE IF structid \notin DOMAIN guide.ipmd_struct THEN Ok(<<>>)
    ELSE StructProps(parent_propnames, ugtopic, parent_so, level, guide.ipmd_struct[structid],
                     teststruct, guide, 1)

\* investigate_ipmdstructure subscripting the guide without looking for the structure
investigate_ipmdstructure_unchecked(parent_propnames, ugtopic, parent_so, level, structid, teststruct, guide) ==
    IF level < 2 \/ level > 3 THEN Ok(<<>>)
    ELSE IF structid \notin DOMAIN guide.ipmd_struct THEN Raise("KeyError")
    ELSE StructProps(parent_propnames, ugtopic, parent_so, level, guide.ipmd_struct[structid],
                     teststruct, guide, 1)

investigate_ipmdstructure(parent_propnames, ugtopic, parent_so, level, structid, teststruct, guide) ==
    IF level < 2 \/ level > 3 THEN Ok(<<>>)
    ELSE IF structid \notin DOMAIN guide.ipmd_struct THEN Ok(<<>>)
    ELSE StructProps(parent_propnames, ugtopic, parent_so, level, guide.ipmd_struct[structid],
                     teststruct, guide, 1)

TagDate == <<"IPTC", ":", "DateCreated">>
TagTime == <<"IPTC", ":", "TimeCreated">>
TagDateTime == TagDate \o <<"+">> \o TagTime

\* special_comparing: the special procedures for comparing the values of a property
SpecialComparing(ipmdpropid) ==
    (IF ipmdpropid = "creatorNames" THEN <<"iim1xmplist", "|">> ELSE <<>>)
    \o (IF ipmdpropid = "dateCreated" THEN <<"iimdatetime", "|">> ELSE <<>>)

\* the IIM column of a top level property: [keymsg, iimfound, iimvalue]
MainIim(ettag, test, plainvalue) ==
    LET found == ettag \in Keys(test)
        both == TagDate \in Keys(test) /\ TagTime \in Keys(test)
    IN  [keymsg |-> IF ettag = TagDateTime
                    THEN (IF both THEN <<"found">> ELSE <<"MISSING">>)
                    ELSE (IF found THEN <<"found">> ELSE <<"MISSING">>),
         iimfound |-> found,
         iimvalue |-> IF found /\ plainvalue THEN Get(test, ettag) ELSE EmptyStr]

\* SyncPlain without the iim1xmplist override
SyncPlain_nooverride(iimvalue, xmpvalue, special_comparing) ==
    IF iimvalue = xmpvalue THEN <<"in sync">> ELSE <<"NOT SYNC">>

\* keymsg after  if iimfound:  the plain comparison and the iim1xmplist override
SyncPlain(iimvalue, xmpvalue, special_comparing) ==
    IF IsSubstr(<<"iim1xmplist">>, special_comparing) /\ IsList(xmpvalue) /\ Len(xmpvalue.e) > 0
    THEN (IF iimvalue = xmpvalue.e[1] THEN <<"in sync">> ELSE <<"NOT SYNC">>)
    ELSE (IF iimvalue = xmpvalue THEN <<"in sync">> ELSE <<"NOT SYNC">>)

\* IimDateTime joining date and time without the space
IimDateTime_nospace(test) ==
    LET iimdatevalue == IF TagDate \in Keys(test) THEN Get(test, TagDate) ELSE EmptyStr
        iimtimevalue == IF TagTime \in Keys(test) THEN Get(test, TagTime) ELSE EmptyStr
    IN  IF iimdatevalue.t = "T" /\ iimtimevalue.t = "T"
        THEN [val |-> Txt(iimdatevalue.s \o iimtimevalue.s), err |-> ""]
        ELSE [val |-> EmptyStr, err |-> "TypeError"]

\* IPTC:DateCreated + ' ' + IPTC:TimeCreated, an absent one being '':
\* [val |-> the string, err |-> the exception of + on a value that is no string]
IimDateTime(test) ==
    LET iimdatevalue == IF TagDate \in Keys(test) THEN Get(test, TagDate) ELSE EmptyStr
        iimtimevalue == IF TagTime \in Keys(test) THEN Get(test, TagTime) ELSE EmptyStr
    IN  IF iimdatevalue.t = "T" /\ iimtimevalue.t = "T"
        THEN [val |-> Txt(iimdatevalue.s \o <<" ">> \o iimtimevalue.s), err |-> ""]
        ELSE [val |-> EmptyStr, err |-> "TypeError"]

\* keymsg of the Sync Values column: [keymsg, err]
SyncValues(ipmdpropid, plainvalue, iimfound, iimvalue, xmpvalue, test) ==
    LET special_comparing == SpecialComparing(ipmdpropid)
        first == IF plainvalue /\ iimfound THEN SyncPlain(iimvalue, xmpvalue, special_comparing)
                 ELSE <<"---">>
        dt == IimDateTime(test)
    IN  IF plainvalue /\ IsSubstr(<<"iimdatetime">>, special_comparing)
        THEN (IF dt.err # "" THEN [keymsg |-> first, err |-> dt.err]
              ELSE [keymsg |-> IF dt.val = xmpvalue THEN <<"in sync">> ELSE <<"NOT SYNC">>, err |-> ""])
        ELSE [keymsg |-> first, err |-> ""]

\* one pass of the loop  for ipmdpropid in pmdguide['ipmd_top']
MainProp(ipmdpropid, ipmdprop, test, guide) ==
    LET label == Field(ipmdprop, "label", <<"UNKNOWN-ERROR">>)
        ugtopic == Field(ipmdprop, "ugtopic", <<"xxx">>)
        sortorder == Field(ipmdprop, "sortorder", <<"xxx">>)
        invstructid == InvStructId(ipmdprop)
        plainvalue == DataType(ipmdprop) \in {"string", "number"}
        hasiim == "etIIM" \in DOMAIN ipmdprop
        hasxmp == "etXMP" \in DOMAIN ipmdprop
        iim == IF hasiim THEN MainIim(ipmdprop.etIIM, test, plainvalue)
               ELSE [keymsg |-> <<"not spec">>, iimfound |-> FALSE, iimvalue |-> EmptyStr]
        xmpfound == hasxmp /\ ipmdprop.etXMP \in Keys(test)
        xmpvalue == IF xmpfound THEN Get(test, ipmdprop.etXMP) ELSE EmptyStr
        xmpmsg == IF ~hasxmp THEN <<"not spec">> ELSE IF xmpfound THEN <<"found">> ELSE <<"MISSING">>
        sync == SyncValues(ipmdpropid, plainvalue, iim.iimfound, iim.iimvalue, xmpvalue, test)
        text == <<TextLine(<<"*** Investigating IPTC PMD property ">> \o label)>>
                \o (IF hasiim THEN <<TextLine(iim.keymsg \o <<" its corresponding IIM property">>)>> ELSE <<>>)
                \o (IF hasxmp THEN <<TextLine(xmpmsg \o <<" its corresponding XMP property">>)>> ELSE <<>>)
        row == Row(<<ugtopic, sortorder, label, <<"x">>, <<"x">>, iim.keymsg, xmpmsg, sync.keymsg>>)
        below == IF invstructid # ""
                 THEN investigate_ipmdstructure(<<label>>, ugtopic, sortorder, 2, invstructid, xmpvalue, guide)
                 ELSE Ok(<<>>)
    IN  IF sync.err # "" THEN [out |-> text, err |-> sync.err]
        ELSE Then(Ok(text \o <<row>>), below)

RECURSIVE MainProps(_, _, _)
MainProps(test, guide, i) ==
    IF i > Len(guide.ipmd_top) THEN Ok(<<>>)
    ELSE Then(MainProp(guide.ipmd_top[i][1], guide.ipmd_top[i][2], test, guide),
              MainProps(test, guide, i + 1))

csvheader ==
    Row(<<<<"topic">>, <<"sortorder">>, <<"IPMD Name L1">>, <<"IPMD Name L2">>, <<"IPMD Name L3">>,
          <<"IIM prop">>, <<"XMP prop">>, <<"Sync Values">>, <<"Comments">>>>)

investigate_mainpmd(test, guide) ==
    Then(Ok(<<csvheader>>), MainProps(test, guide, 1))

(* ---------------------------------------------------------------------- *)
(* The trees the checks run on                                             *)
(* ---------------------------------------------------------------------- *)
Nums == {Num(v) : v \in 1..MaxVal}

\* the dicts with one of the key sequences keyseqs and values from vals
ObjsOver(keyseqs, vals) ==
    UNION {{Obj([i \in 1..Len(ks) |-> <<ks[i], f[i]>>]) : f \in [1..Len(ks) -> vals]} : ks \in keyseqs}

\* the lists of 1..MaxListLen numbers that count up from 1, 1 following MaxVal
NumLists == {Lst([i \in 1..n |-> Num(((i - 1) % MaxVal) + 1)]) : n \in 1..MaxListLen}

\* the lists of 1..MaxListLen items of one shape: the reference lists are uniform
UniformLists(vals) == {Lst([i \in 1..n |-> v]) : n \in 1..MaxListLen, v \in vals}

\* structures without structures inside; TagLoc is no property of a structure
RefStructs0 == ObjsOver({<<TagA>>, <<TagA, TagB>>, <<TagLoc, TagA>>}, {Num(1)})

\* lists of structures: any number of the smallest one, or one of any
StructLists == UniformLists({Obj(<<<<TagA, Num(1)>>>>)}) \cup {Lst(<<x>>) : x \in RefStructs0}

\* what a property of a top level structure holds
RefVals1 == {Num(1)} \cup RefStructs0 \cup NumLists \cup StructLists

RefStructs1 == ObjsOver({<<TagA>>}, RefVals1) \cup ObjsOver({<<TagA, TagB>>, <<TagLoc, TagA>>}, {Num(1)})

\* what a top level property holds
RefVals2 == Nums \cup RefStructs1 \cup NumLists \cup StructLists

\* the reference trees; TagA is no top level property
RefTrees ==
    ObjsOver({<<TagLoc>>}, RefVals2)
    \cup ObjsOver({<<TagLoc, TagCre>>, <<TagA, TagLoc>>}, {Num(1), Lst(<<Num(1)>>), Obj(<<<<TagA, Num(1)>>>>)})
    \cup {Obj(<< <<TagComment, Txt(<<"r">>)>>, <<TagLoc, v>> >>) : v \in {Num(1), Obj(<<<<TagA, Num(1)>>>>)}}

\* values of another shape, put where the reference has x
OtherShapes(x) ==
    CASE x.t = "I" -> {Txt(TagA)}
      [] x.t = "T" -> {Num(1)}
      [] x.t = "O" -> {Num(1), Txt(TagA)}
      [] OTHER -> {Txt(TagA), Obj(<<>>)}

RECURSIVE OneEdit(_)
\* the values one edit away from x
OneEdit(x) ==
    CASE x.t = "I" -> {Num(w) : w \in (1..MaxVal) \ {x.v}} \cup OtherShapes(x)
      [] x.t = "T" -> OtherShapes(x)
      [] x.t = "O" ->
            {Obj(SubSeq(x.kv, 1, i - 1) \o SubSeq(x.kv, i + 1, Len(x.kv))) : i \in 1..Len(x.kv)}
            \cup UNION {{Obj([x.kv EXCEPT ![i] = <<x.kv[i][1], y>>]) : y \in OneEdit(x.kv[i][2])} : i \in 1..Len(x.kv)}
            \cup (IF TagExtra \in Keys(x) THEN {} ELSE {Obj(Append(x.kv, <<TagExtra, Num(1)>>))})
            \cup OtherShapes(x)
      [] OTHER ->
            (IF Len(x.e) = 0 THEN {} ELSE {Lst(SubSeq(x.e, 1, Len(x.e) - 1))})
            \cup {Lst(Append(x.e, Obj(<<>>)))}
            \cup UNION {{Lst([x.e EXCEPT ![i] = y]) : y \in OneEdit(x.e[i])} : i \in 1..Len(x.e)}
            \cup OtherShapes(x)

\* one edit of a whole tree: the tree stays a dict, and may get a comment
OneTreeEdit(x) ==
    {y \in OneEdit(x) : y.t = "O"}
    \cup (IF TagComment \in Keys(x) THEN {} ELSE {Obj(Append(x.kv, <<TagComment, Txt(<<"n">>)>>))})

RECURSIVE EditsUpTo(_, _)
EditsUpTo(x, n) ==
    IF n = 0 THEN {x}
    ELSE LET prev == EditsUpTo(x, n - 1) IN prev \cup UNION {OneTreeEdit(y) : y \in prev}

\* the candidate trees checked against the reference tree ref
Candidates(ref) == EditsUpTo(ref, MaxEdits)

(* ---------------------------------------------------------------------- *)
(* The runs of the divergence-only check                                   *)
(* ---------------------------------------------------------------------- *)
\* a run of a check resolves no name on its own
NoNames ==
    /\ tagid = <<>>
    /\ inctx = FALSE
    /\ resolved = [is |-> FALSE, name |-> <<>>]

\* a run of one check has no batch
NoBatch ==
    /\ foundtest3images = <<>>
    /\ position = 0
    /\ testresults = <<>>
    /\ backup = {}

Init ==
    /\ ipmdref \in RefTrees
    /\ ipmdtest \in Candidates(ipmdref)
    /\ comparevalues \in BOOLEAN
    /\ pc = "ready"
    /\ script = ""
    /\ out = <<>>
    /\ err = ""
    /\ techguide = NoGuide
    /\ NoBatch
    /\ NoNames

Finish(r) ==
    /\ out' = r.out
    /\ err' = r.err
    /\ pc' = IF r.err = "" THEN "done" ELSE "fault"

\* ipmdchecker.py, check_mainpmd(test_json_fp, testresultsfp, comparevalues)
CheckMainpmd ==
    /\ pc = "ready"
    /\ script' = "ipmdchecker"
    /\ Finish(check_mainpmd(ipmdref, ipmdtest, comparevalues))
    /\ UNCHANGED <<ipmdref, ipmdtest, comparevalues, techguide>>
    /\ UNCHANGED batchvars
    /\ UNCHANGED namevars

\* checkfor_missing_props.py, check_mainpmd(test_json_fp, testresultsfp)
CheckMissingProps ==
    /\ pc = "ready"
    /\ script' = "checkfor_missing_props"
    /\ Finish(cmp_check_mainpmd(ipmdref, ipmdtest))
    /\ UNCHANGED <<ipmdref, ipmdtest, comparevalues, techguide>>
    /\ UNCHANGED batchvars
    /\ UNCHANGED namevars

Next == CheckMainpmd \/ CheckMissingProps

Spec == Init /\ [][Next]_vars

(* ---------------------------------------------------------------------- *)
(* The check run a second time on the same files                           *)
(* ---------------------------------------------------------------------- *)
\* append_line2file opening the file for writing: the lines replace the file
append_line2file_truncating(file, lines) == lines

\* append_line2file, line by line: open(filepath, 'a') adds to what the file holds
append_line2file(file, lines) == file \o lines

\* ipmdchecker.py, check_mainpmd called again with the arguments of the first call
CheckMainpmdAgain ==
    /\ pc \in {"done", "fault"}
    /\ script = "ipmdchecker"
    /\ script' = "ipmdchecker, again"
    /\ LET r == check_mainpmd(ipmdref, ipmdtest, comparevalues)
       IN  /\ out' = append_line2file(out, r.out)
           /\ err' = r.err
           /\ pc' = IF r.err = "" THEN "done" ELSE "fault"
    /\ UNCHANGED <<ipmdref, ipmdtest, comparevalues, techguide>>
    /\ UNCHANGED batchvars
    /\ UNCHANGED namevars

NextAgain == CheckMainpmd \/ CheckMainpmdAgain

SpecAgain == Init /\ [][NextAgain]_vars

(* ---------------------------------------------------------------------- *)
(* The runs of the investigation                                           *)
(* ---------------------------------------------------------------------- *)
TagByline == <<"IPTC", ":", "By-line">>
TagCreator == <<"XMP-dc", ":", "Creator">>
TagXmpDate == <<"XMP-photoshop", ":", "DateCreated">>
TagIimTitle == <<"IPTC", ":", "ObjectName">>
TagXmpTitle == <<"XMP-dc", ":", "Title">>

\* the descriptors of the two properties with a special comparison
creatorNames ==
    [label |-> <<"Creator">>, ugtopic |-> <<"P">>, sortorder |-> <<"c010">>,
     datatype |-> "string", etIIM |-> TagByline, etXMP |-> TagCreator]
dateCreated ==
    [label |-> <<"Date Created">>, ugtopic |-> <<"T">>, sortorder |-> <<"c020">>,
     datatype |-> "string", dataformat |-> "date-time", etIIM |-> TagDateTime, etXMP |-> TagXmpDate]

\* the descriptor sets of the structures; S1 and S2 name each other, S9 has
\* no set, and the first property of S3 names S9
StructSets ==
    ("S1" :> << <<"p1", [label |-> <<"P1">>, sortorder |-> <<"s1">>, datatype |-> "string", etTag |-> TagA]>>,
                <<"p2", [label |-> <<"P2">>, sortorder |-> <<"s2">>, datatype |-> "struct",
                         dataformat |-> "S2", etTag |-> TagB]>> >>)
    @@ ("S2" :> << <<"q1", [label |-> <<"Q1">>, datatype |-> "struct", dataformat |-> "S1", etTag |-> TagA]>>,
                   <<"q2", [sortorder |-> <<"s4">>]>> >>)
    @@ ("S3" :> << <<"r1", [label |-> <<"R1">>, sortorder |-> <<"s5">>, datatype |-> "struct",
                            dataformat |-> "S9", etTag |-> TagB]>>,
                   <<"r2", [label |-> <<"R2">>, sortorder |-> <<"s6">>, datatype |-> "string", etTag |-> TagA]>> >>)

\* {<<>>} and the one-field records  name :> v
OptField(name, vals) == {<<>>} \cup {name :> v : v \in vals}

\* the descriptors of a property without special comparison, every field optional
TitleDescs ==
    {l @@ u @@ dt @@ df @@ iim @@ xmp @@ ("sortorder" :> <<"c030">>) :
        l \in OptField("label", {<<"Title">>}),
        u \in OptField("ugtopic", {<<"G">>}),
        dt \in OptField("datatype", {"string", "number", "struct"}),
        df \in OptField("dataformat", {"AltLang", "S1", "S3", "S9"}),
        iim \in OptField("etIIM", {TagIimTitle}),
        xmp \in OptField("etXMP", {TagXmpTitle})}

RECURSIVE DictsOver(_)
\* the key-value sequences that hold each key of spec, in order, or leave
\* it out; spec is <<<<key, values>>, ...>>
DictsOver(spec) ==
    IF spec = <<>> THEN {<<>>}
    ELSE LET rest == DictsOver(Tail(spec))
         IN  rest \cup {<<<<Head(spec)[1], v>>>> \o r : v \in Head(spec)[2], r \in rest}

Names == {Txt(<<"n">> \o Str(v)) : v \in 1..MaxVal}
Dates == {Txt(<<"2020-01-0">> \o Str(v)) : v \in 1..MaxVal}
Times == {Txt(<<"10:00:00">>)}
XmpDates ==
    {Txt(d.s \o <<" ">> \o t.s) : d \in Dates, t \in Times}
    \cup Dates \cup {Txt(d.s \o <<" ">>) : d \in Dates} \cup {Txt(<<" ">>)}

\* candidates for the two properties with a special comparison
SpecialCandidates ==
    {Obj(kv) : kv \in DictsOver(<<
        <<TagByline, Names>>,
        <<TagCreator, Names \cup {Lst(<<>>)} \cup {Lst(<<n>>) : n \in Names}
                      \cup {Lst(<<n, m>>) : n \in Names, m \in Names}>>,
        <<TagDate, Dates>>,
        <<TagTime, Times>>,
        <<TagXmpDate, XmpDates>> >>)}

\* candidates for the property without special comparison
TitleCandidates ==
    {Obj(kv) : kv \in DictsOver(<<
        <<TagIimTitle, Names \cup {Num(1)}>>,
        <<TagXmpTitle, Names \cup {Num(1), Lst(<<Txt(<<"n1">>)>>), Obj(<<>>),
                       Obj(<< <<TagA, Txt(<<"n1">>)>>, <<TagB, Obj(<< <<TagA, Txt(<<"n1">>)>> >>)>> >>),
                       Lst(<<Obj(<<>>), Obj(<< <<TagA, Txt(<<"n1">>)>> >>)>>)}>> >>)}

InitInvestigate ==
    /\ \/ /\ techguide = [ipmd_top |-> << <<"creatorNames", creatorNames>>, <<"dateCreated", dateCreated>> >>,
                          ipmd_struct |-> StructSets]
          /\ ipmdtest \in SpecialCandidates
       \/ /\ \E d \in TitleDescs :
                techguide = [ipmd_top |-> << <<"title", d>>, <<"creatorNames", creatorNames>> >>,
                             ipmd_struct |-> StructSets]
          /\ ipmdtest \in TitleCandidates
    /\ ipmdref = Obj(<<>>)
    /\ comparevalues = FALSE
    /\ pc = "ready"
    /\ script = ""
    /\ out = <<>>
    /\ err = ""
    /\ NoBatch
    /\ NoNames

\* ipmdchecker2.py, investigate_mainpmd(test_json_fp, testresults_text_fp, testresults_csv_fp)
InvestigateMainpmd ==
    /\ pc = "ready"
    /\ script' = "ipmdchecker2"
    /\ Finish(investigate_mainpmd(ipmdtest, techguide))
    /\ UNCHANGED <<ipmdref, ipmdtest, comparevalues, techguide>>
    /\ UNCHANGED batchvars
    /\ UNCHANGED namevars

NextInvestigate == InvestigateMainpmd

SpecInvestigate == InitInvestigate /\ [][NextInvestigate]_vars

(* ---------------------------------------------------------------------- *)
(* The batch of checkfor_missing_props.py: run_test3 and the MAIN loop     *)
(* ---------------------------------------------------------------------- *)
\* What readpmd_exiftool leaves at testjsonfp: no file, a file that is no
\* JSON, or a JSON document.
NoJson == [k |-> "none"]
Malformed == [k |-> "malformed"]
Json(doc) == [k |-> "json", doc |-> doc]

\* json.load(file)[0]: [val |-> the candidate tree, err |-> the exception]
JsonLoad0(f) ==
    IF f.k = "malformed" THEN [val |-> Obj(<<>>), err |-> "JSONDecodeError"]
    ELSE IF PyIndexErr(f.doc, 0) # "" THEN [val |-> Obj(<<>>), err |-> PyIndexErr(f.doc, 0)]
    ELSE [val |-> PyIndex(f.doc, 0), err |-> ""]

\* check_mainpmd(test_json_fp, testresultsfp) from the opening of the JSON file on
cmp_check_mainpmd_file(ref, f) ==
    LET t == JsonLoad0(f)
    IN  IF t.err # "" THEN Raise(t.err) ELSE cmp_check_mainpmd(ref, t.val)

Tested3 == TextLine(<<"Tested(3) JSON file of image">>)
TestFinished == TextLine(<<"***** TEST FINISHED *****">>)

\* the reference trees and the JSON files of the batches
BatchRefs ==
    ObjsOver({<<TagLoc, TagCre>>}, {Num(1), Obj(<<<<TagA, Num(1)>>>>)})
    \cup {Obj(<< <<TagLoc, Lst([i \in 1..MaxListLen |-> Obj(<<<<TagA, Num(1)>>>>)])>> >>)}

JsonFiles(ref) ==
    {NoJson, Malformed, Json(Obj(<<>>)), Json(Lst(<<>>))}
    \cup {Json(Lst(<<x>>)) : x \in EditsUpTo(ref, 1)}

InitBatch ==
    /\ ipmdref \in BatchRefs
    /\ \E n \in 1..MaxFiles : foundtest3images \in [1..n -> JsonFiles(ipmdref)]
    /\ position = 0
    /\ testresults = [i \in 1..Len(foundtest3images) |-> <<>>]
    /\ backup = {}
    /\ ipmdtest = Obj(<<>>)
    /\ comparevalues = FALSE
    /\ pc = "ready"
    /\ script = ""
    /\ out = <<>>
    /\ err = ""
    /\ techguide = NoGuide
    /\ NoNames

\* foundtest3images = find_test3files(TEST3DIR); print(foundtest3images)
FindTest3Files ==
    /\ pc = "ready"
    /\ pc' = "running"
    /\ script' = "checkfor_missing_props"
    /\ UNCHANGED <<ipmdref, ipmdtest, comparevalues, out, err, techguide, batchvars, namevars>>

\* one pass of  for testimgfn in foundtest3images: run_test3(testimgfn)
RunTest3 ==
    /\ pc = "running"
    /\ position < Len(foundtest3images)
    /\ LET i == position + 1
           f == foundtest3images[i]
           r == cmp_check_mainpmd_file(ipmdref, f)
           last == i = Len(foundtest3images)
       IN  IF f.k = "none"
           THEN /\ position' = i
                /\ pc' = IF last THEN "done" ELSE "running"
                /\ UNCHANGED <<out, err, testresults, backup>>
           ELSE IF r.err # ""
           THEN /\ out' = out \o <<Tested3>> \o r.out
                /\ testresults' = [testresults EXCEPT ![i] = r.out]
                /\ err' = r.err
                /\ pc' = "fault"
                /\ UNCHANGED <<position, backup>>
           ELSE /\ out' = out \o <<Tested3>> \o r.out
                /\ testresults' = [testresults EXCEPT ![i] = r.out \o <<TestFinished>>]
                /\ backup' = backup \cup {i}
                /\ position' = i
                /\ pc' = IF last THEN "done" ELSE "running"
                /\ UNCHANGED err
    /\ UNCHANGED <<ipmdref, ipmdtest, comparevalues, script, techguide, foundtest3images, namevars>>

NextBatch == FindTest3Files \/ RunTest3

SpecBatch == InitBatch /\ [][NextBatch]_vars

(* ---------------------------------------------------------------------- *)
(* The name resolver on its own                                            *)
(* ---------------------------------------------------------------------- *)
\* the fragments tags are made of, and the tags of 1..MaxTagLen fragments
TagFragments == {"x", ":", "_", "l", "c", "a", "b", "z"}
Tags == UNION {[1..n -> TagFragments] : n \in 1..MaxTagLen}

InitResolve ==
    /\ tagid \in Tags
    /\ inctx \in BOOLEAN
    /\ resolved = [is |-> FALSE, name |-> <<>>]
    /\ ipmdref = Obj(<<>>)
    /\ ipmdtest = Obj(<<>>)
    /\ comparevalues = FALSE
    /\ pc = "ready"
    /\ script = ""
    /\ out = <<>>
    /\ err = ""
    /\ techguide = NoGuide
    /\ NoBatch

\* is_iptcpmdpropname(etpropname, instructure) and get_iptcpropname(etpropname, instructure)
Resolve ==
    /\ pc = "ready"
    /\ pc' = "done"
    /\ script' = "resolver"
    /\ resolved' = [is |-> is_iptcpmdpropname(tagid, inctx), name |-> get_iptcpropname(tagid, inctx)]
    /\ UNCHANGED <<ipmdref, ipmdtest, comparevalues, out, err, techguide, tagid, inctx, batchvars>>

NextResolve == Resolve

SpecResolve == InitResolve /\ [][NextResolve]_vars

(* ---------------------------------------------------------------------- *)
(* Helpers of the properties                                               *)
(* ---------------------------------------------------------------------- *)
Range(s) == {s[i] : i \in 1..Len(s)}
Findings(lines) == SelectSeq(lines, LAMBDA l : l.kind \in {"MISSING", "CHANGED"})
Ran(name) == pc # "ready" /\ script = name
Arrow == <<"-", ">">>

\* C1: Reflexivity. A run of check_mainpmd (ipmdchecker.py) on a candidate
\* tree identical to the reference tree, with comparevalues set or unset,
\* ends without an exception and writes no MISSING and no CHANGED line.
C1_Reflexivity ==
    (Ran("ipmdchecker") /\ ipmdtest = ipmdref) => (err = "" /\ Findings(out) = <<>>)

\* a reference with a list of structures below a structure, checked with comparevalues
C1_Witness ==
    /\ pc = "done" /\ script = "ipmdchecker" /\ ipmdtest = ipmdref /\ comparevalues
    /\ \E i \in 1..Len(ipmdref.kv) :
          /\ is_iptcpmdpropname(ipmdref.kv[i][1], FALSE)
          /\ IsDict(ipmdref.kv[i][2])
          /\ \E j \in 1..Len(ipmdref.kv[i][2].kv) :
                /\ IsList(ipmdref.kv[i][2].kv[j][2])
                /\ \E n \in 1..Len(ipmdref.kv[i][2].kv[j][2].e) : IsDict(ipmdref.kv[i][2].kv[j][2].e[n])

\* C2: The displayed list index is 1-based. When a top level list property
\* of the reference holds a structure at position n (counted from 1, i.e.
\* 0-based position n-1) with a property k of the guide, and the candidate's
\* structure at that position lacks k, a completed run of ipmdchecker.py
\* writes MISSING for the path  <list>[n]-><k> .
C2_OneBasedIndex ==
    (pc = "done" /\ script = "ipmdchecker") =>
        \A i \in 1..Len(ipmdref.kv) :
            LET k == ipmdref.kv[i][1]
                v == ipmdref.kv[i][2]
            IN  (is_iptcpmdpropname(k, FALSE) /\ IsList(v) /\ k \in Keys(ipmdtest)
                    /\ IsList(Get(ipmdtest, k)) /\ Len(Get(ipmdtest, k).e) >= Len(v.e)) =>
                \A n \in 1..Len(v.e) :
                    (IsDict(v.e[n]) /\ IsDict(Get(ipmdtest, k).e[n])) =>
                    \A j \in 1..Len(v.e[n].kv) :
                        LET k2 == v.e[n].kv[j][1] IN
                        (is_iptcpmdpropname(k2, TRUE) /\ k2 \notin Keys(Get(ipmdtest, k).e[n])) =>
                        Missing(get_iptcpropname(k, FALSE) \o <<"[">> \o Str(n) \o <<"]">>
                                \o Arrow \o get_iptcpropname(k2, TRUE)) \in Range(out)

\* some top level list property of the guide is a list in both trees and
\* the candidate's list is the shorter one
ShorterTopList ==
    \E i \in 1..Len(ipmdref.kv) :
        LET k == ipmdref.kv[i][1]
            v == ipmdref.kv[i][2]
        IN  /\ is_iptcpmdpropname(k, FALSE) /\ IsList(v) /\ k \in Keys(ipmdtest)
            /\ IsList(Get(ipmdtest, k)) /\ Len(Get(ipmdtest, k).e) < Len(v.e)

\* C3: A shorter candidate list is guarded. A run of ipmdchecker.py on
\* trees where a list property of the guide is shorter in the candidate
\* than in the reference does not end with an IndexError.
C3_ShortListGuarded ==
    (Ran("ipmdchecker") /\ ShorterTopList) => err # "IndexError"

\* the path check_mainpmd / check_pmdstructure builds for key k below path
PathOf(path, k, instructure) ==
    IF instructure THEN path \o Arrow \o get_iptcpropname(k, TRUE) ELSE get_iptcpropname(k, FALSE)

RECURSIVE Deletions(_, _, _, _)
\* The ways to delete one key of its guide from the dict x or from a dict
\* below it: [tree |-> x without the key, path |-> the path of the key,
\* vis |-> every key above it is a key of its guide].
Deletions(x, path, instructure, vis) ==
    UNION {
        LET k == x.kv[i][1]
            v == x.kv[i][2]
            rec == is_iptcpmdpropname(k, instructure)
            kpath == PathOf(path, k, instructure)
            With(y) == Obj([x.kv EXCEPT ![i] = <<k, y>>])
        IN  (IF rec
             THEN {[tree |-> Obj(SubSeq(x.kv, 1, i - 1) \o SubSeq(x.kv, i + 1, Len(x.kv))),
                    path |-> kpath, vis |-> vis]}
             ELSE {})
            \cup (IF IsDict(v)
                  THEN {[tree |-> With(d.tree), path |-> d.path, vis |-> d.vis] :
                            d \in Deletions(v, kpath, TRUE, vis /\ rec)}
                  ELSE {})
            \cup (IF IsList(v)
                  THEN UNION {
                          IF IsDict(v.e[n])
                          THEN {[tree |-> With(Lst([v.e EXCEPT ![n] = d.tree])), path |-> d.path, vis |-> d.vis] :
                                    d \in Deletions(v.e[n], kpath \o <<"[">> \o ListIndexShown(n - 1) \o <<"]">>,
                                                    TRUE, vis /\ rec)}
                          ELSE {} : n \in 1..Len(v.e)}
                  ELSE {})
        : i \in 1..Len(x.kv)}

\* C4 as stated: Single missing key. When the candidate is the reference
\* with exactly one key of its guide deleted, at the top level or inside a
\* nested structure, a run of ipmdchecker.py writes exactly one finding, the
\* MISSING line for the path of that key.
C4_SingleMissingKey_Stated ==
    Ran("ipmdchecker") =>
        \A d \in Deletions(ipmdref, <<>>, FALSE, TRUE) :
            (d.tree = ipmdtest) => (err = "" /\ Findings(out) = <<Missing(d.path)>>)

\* C4, amended: the same, for a deleted key all of whose ancestor keys are
\* keys of their guides.
C4_SingleMissingKey ==
    Ran("ipmdchecker") =>
        \A d \in Deletions(ipmdref, <<>>, FALSE, TRUE) :
            (d.tree = ipmdtest /\ d.vis) => (err = "" /\ Findings(out) = <<Missing(d.path)>>)

\* a key deleted from a structure in a list, with a sibling key left
C4_Witness ==
    /\ pc = "done" /\ script = "ipmdchecker"
    /\ \E d \in Deletions(ipmdref, <<>>, FALSE, TRUE) :
          d.tree = ipmdtest /\ d.vis /\ Len(d.path) > 4 /\ out = <<Missing(d.path)>>

RECURSIVE Strip(_, _)
\* the candidate x without what the reference r has no place for: keys of
\* a dict that r's dict lacks, items of a list beyond the length of r's list
Strip(r, x) ==
    CASE r.t = "O" /\ x.t = "O" ->
            LET kept == SelectSeq(x.kv, LAMBDA p : p[1] \in Keys(r))
            IN  Obj([i \in 1..Len(kept) |-> <<kept[i][1], Strip(Get(r, kept[i][1]), kept[i][2])>>])
      [] r.t = "L" /\ x.t = "L" ->
            LET n == IF Len(x.e) < Len(r.e) THEN Len(x.e) ELSE Len(r.e)
            IN  Lst([i \in 1..n |-> Strip(r.e[i], x.e[i])])
      [] OTHER -> x

\* the outcome of the entry point  name  on reference r and candidate x
Outcome(name, r, x, comparevals) ==
    IF name = "ipmdchecker" THEN check_mainpmd(r, x, comparevals) ELSE cmp_check_mainpmd(r, x)

\* the comment of the candidate is read by the driver, whatever the reference holds
StripKeepComment(r, x) ==
    LET y == Strip(r, x)
    IN  IF TagComment \in Keys(x) /\ TagComment \notin Keys(y)
        THEN Obj(Append(y.kv, <<TagComment, Get(x, TagComment)>>))
        ELSE y

\* C5: The reference tree is the traversal driver. What a completed run
\* writes is what the same entry point writes for the candidate without
\* its candidate-only keys and without its list items beyond the length of
\* the reference list.
C5_ReferenceDrives ==
    pc = "done" =>
        out = Outcome(script, ipmdref, StripKeepComment(ipmdref, ipmdtest), comparevalues).out

\* the tag, its colons made underscores, is a key of the group of its context
InGuide(tag, instructure) ==
    Replace(tag) \in DOMAIN pmdguide[IF instructure THEN "instructure" ELSE "topwithprefix"]

RECURSIVE Prune(_, _)
\* the reference x without the keys that are no keys of their guide
Prune(x, instructure) ==
    CASE x.t = "O" ->
            LET kept == SelectSeq(x.kv, LAMBDA p : InGuide(p[1], instructure))
            IN  Obj([i \in 1..Len(kept) |-> <<kept[i][1], Prune(kept[i][2], TRUE)>>])
      [] x.t = "L" -> Lst([i \in 1..Len(x.e) |-> Prune(x.e[i], TRUE)])
      [] OTHER -> x

\* C6: Keys of the reference that are no keys of their guide are invisible.
\* What a run writes, and how it ends, is what the same entry point does
\* for the reference without those keys and all below them, whatever the
\* candidate holds in their place.
C6_UnrecognizedInvisible ==
    pc # "ready" =>
        LET r == Outcome(script, Prune(ipmdref, FALSE), ipmdtest, comparevalues)
        IN  out = r.out /\ err = r.err

\* the reference has a key outside its guide and the candidate differs there
C6_Witness ==
    /\ pc # "ready"
    /\ \E i \in 1..Len(ipmdref.kv) :
          LET k == ipmdref.kv[i][1] IN
          /\ ~InGuide(k, FALSE)
          /\ (k \notin Keys(ipmdtest) \/ Get(ipmdtest, k).t # ipmdref.kv[i][2].t)

RECURSIVE PlainSites(_, _, _, _)
\* The plain valued keys the two dicts r and x share, here and in the
\* structures below that both trees have, keys of their guides throughout:
\* [path |-> the path of the key, ref |-> r's value, test |-> x's value].
PlainSites(r, x, path, instructure) ==
    UNION {
        LET k == r.kv[i][1]
            v == r.kv[i][2]
            kpath == PathOf(path, k, instructure)
            w == Get(x, k)
        IN  IF ~(is_iptcpmdpropname(k, instructure) /\ k \in Keys(x)) THEN {}
            ELSE CASE IsPlain(v) -> {[path |-> kpath, ref |-> v, test |-> w]}
                   [] IsDict(v) /\ IsDict(w) -> PlainSites(v, w, kpath, TRUE)
                   [] IsList(v) /\ IsList(w) ->
                        UNION {
                            IF n <= Len(w.e) /\ IsDict(v.e[n]) /\ IsDict(w.e[n])
                            THEN PlainSites(v.e[n], w.e[n],
                                            kpath \o <<"[">> \o ListIndexShown(n - 1) \o <<"]">>, TRUE)
                            ELSE {} : n \in 1..Len(v.e)}
                   [] OTHER -> {}
        : i \in 1..Len(r.kv)}

\* C7: Scalar value comparison. For every key of the guide with a plain
\* reference value that both nodes have, a run of ipmdchecker.py writes the
\* CHANGED line with the key's full path and the candidate's value if and
\* only if comparevalues is set and the two values differ; without
\* comparevalues no CHANGED line is written at all.
C7_ScalarComparison ==
    Ran("ipmdchecker") =>
        /\ \A q \in PlainSites(ipmdref, ipmdtest, <<>>, FALSE) :
              (Changed(q.path, q.test) \in Range(out)) <=> (comparevalues /\ q.test # q.ref)
        /\ (~comparevalues => \A i \in 1..Len(out) : out[i].kind # "CHANGED")

\* the rows of the CSV file, without the header row
Rows == Tail(SelectSeq(out, LAMBDA l : l.kind = "ROW"))

\* the Sync Values cell of the top level row of the property with label
SyncOf(label) ==
    LET i == CHOOSE j \in 1..Len(Rows) : Rows[j].cells[3] = label /\ Rows[j].cells[4] = <<"x">>
    IN  Rows[i].cells[8]

HasRow(label) == \E j \in 1..Len(Rows) : Rows[j].cells[3] = label /\ Rows[j].cells[4] = <<"x">>

\* the i-th top level property of the guide has both of its sides in the candidate
BothSides(i) ==
    LET d == techguide.ipmd_top[i][2]
    IN  /\ "etIIM" \in DOMAIN d /\ "etXMP" \in DOMAIN d
        /\ d.etXMP \in Keys(ipmdtest)
        /\ IF d.etIIM = TagDateTime
           THEN TagDate \in Keys(ipmdtest) /\ TagTime \in Keys(ipmdtest)
           ELSE d.etIIM \in Keys(ipmdtest)

\* C8: The sync classification is three-way. In a completed investigation
\* the Sync Values cell of every top level property is 'in sync',
\* 'NOT SYNC' or '---', and it is '---' whenever the IIM side or the XMP
\* side of the property is absent from the candidate.
C8_ThreeWaySync ==
    (pc = "done" /\ script = "ipmdchecker2") =>
        \A i \in 1..Len(techguide.ipmd_top) :
            LET label == Field(techguide.ipmd_top[i][2], "label", <<"UNKNOWN-ERROR">>)
            IN  /\ HasRow(label)
                /\ SyncOf(label) \in {<<"in sync">>, <<"NOT SYNC">>, <<"---">>}
                /\ (~BothSides(i) => SyncOf(label) = <<"---">>)

\* the concatenation of the candidate's date, a space and its time
DateTimeOf(test) ==
    (IF TagDate \in Keys(test) THEN Get(test, TagDate).s ELSE <<>>)
    \o <<" ">>
    \o (IF TagTime \in Keys(test) THEN Get(test, TagTime).s ELSE <<>>)

HasDateCreated == \E i \in 1..Len(techguide.ipmd_top) : techguide.ipmd_top[i][1] = "dateCreated"

\* C9: Composite date-time synchronization. In an investigation whose guide
\* has the date created property, the run ends without an exception and the
\* Sync Values cell of that property is 'in sync' if the candidate's
\* IPTC:DateCreated, a space and its IPTC:TimeCreated (an absent one being
\* empty) make up exactly the candidate's XMP value, and 'NOT SYNC' if not.
C9_CompositeDateTime ==
    (Ran("ipmdchecker2") /\ HasDateCreated) =>
        /\ pc = "done"
        /\ HasRow(dateCreated.label)
        /\ SyncOf(dateCreated.label) =
              IF TagXmpDate \in Keys(ipmdtest) /\ Get(ipmdtest, TagXmpDate) = Txt(DateTimeOf(ipmdtest))
              THEN <<"in sync">> ELSE <<"NOT SYNC">>

\* date 2020-01-01 and time 10:00:00 against the composite 2020-01-01 10:00:00
C9_Witness ==
    /\ pc = "done" /\ script = "ipmdchecker2" /\ HasDateCreated
    /\ TagDate \in Keys(ipmdtest) /\ Get(ipmdtest, TagDate) = Txt(<<"2020-01-0", "1">>)
    /\ TagTime \in Keys(ipmdtest) /\ Get(ipmdtest, TagTime) = Txt(<<"10:00:00">>)
    /\ TagXmpDate \in Keys(ipmdtest)
    /\ Get(ipmdtest, TagXmpDate) = Txt(<<"2020-01-0", "1", " ", "10:00:00">>)
    /\ SyncOf(dateCreated.label) = <<"in sync">>

\* C10: List-vs-singular synchronization. When the candidate's IPTC:By-line
\* is a single value and its XMP-dc:Creator is a list, the Sync Values cell
\* of the creator property is 'in sync' if the single value is the first
\* item of the list and 'NOT SYNC' if not, whatever the comparison of the
\* single value with the whole list gives.
C10_ListVsSingular ==
    (pc = "done" /\ script = "ipmdchecker2" /\ HasRow(creatorNames.label)
        /\ TagByline \in Keys(ipmdtest) /\ ~IsList(Get(ipmdtest, TagByline))
        /\ TagCreator \in Keys(ipmdtest) /\ IsList(Get(ipmdtest, TagCreator))) =>
        SyncOf(creatorNames.label) =
            IF Len(Get(ipmdtest, TagCreator).e) > 0 /\ Get(ipmdtest, TagCreator).e[1] = Get(ipmdtest, TagByline)
            THEN <<"in sync">> ELSE <<"NOT SYNC">>

\* a single name against a list of two names that starts with it
C10_Witness ==
    /\ pc = "done" /\ script = "ipmdchecker2" /\ HasRow(creatorNames.label)
    /\ TagByline \in Keys(ipmdtest) /\ ~IsList(Get(ipmdtest, TagByline))
    /\ TagCreator \in Keys(ipmdtest) /\ IsList(Get(ipmdtest, TagCreator))
    /\ Len(Get(ipmdtest, TagCreator).e) = 2
    /\ Get(ipmdtest, TagCreator).e[1] = Get(ipmdtest, TagByline)
    /\ SyncOf(creatorNames.label) = <<"in sync">>

\* the JSON file holds a candidate tree:  json.load(file)[0]  raises nothing
Usable(f) == f.k = "json" /\ PyIndexErr(f.doc, 0) = ""

\* C11: Failure isolation across files. In the batch loop of
\* checkfor_missing_props.py a failure of one image never ends the run: when
\* the loop has ended, run_test3 has returned for every image of the batch;
\* and an image without a usable JSON file has no MISSING line in its result
\* file and is not moved to the backup directory.
C11_FailureIsolation ==
    /\ pc # "fault"
    /\ (pc \in {"done", "fault"} => position = Len(foundtest3images))
    /\ \A i \in 1..Len(foundtest3images) :
          ~Usable(foundtest3images[i]) =>
              (Findings(testresults[i]) = <<>> /\ i \notin backup)

\* the rows of the top level properties: their L2 and L3 names are x-ed out
TopRows == SelectSeq(Rows, LAMBDA l : l.cells[4] = <<"x">> /\ l.cells[5] = <<"x">>)

\* the i-th row of TopRows is the row of the i-th property of the guide
IsRowOf(row, ipmdprop) ==
    /\ Len(row.cells) = 8
    /\ row.cells[1] = Field(ipmdprop, "ugtopic", <<"xxx">>)
    /\ row.cells[2] = Field(ipmdprop, "sortorder", <<"xxx">>)
    /\ row.cells[3] = Field(ipmdprop, "label", <<"UNKNOWN-ERROR">>)
    /\ row.cells[6] \in (IF "etIIM" \in DOMAIN ipmdprop THEN {<<"found">>, <<"MISSING">>} ELSE {<<"not spec">>})
    /\ row.cells[7] = (IF "etXMP" \notin DOMAIN ipmdprop THEN <<"not spec">>
                       ELSE IF ipmdprop.etXMP \in Keys(ipmdtest) THEN <<"found">> ELSE <<"MISSING">>)
    /\ row.cells[8] \in {<<"in sync">>, <<"NOT SYNC">>, <<"---">>}

\* C12: Full-inventory mode emits a row for every known property. A run of
\* investigate_mainpmd writes the header row first and then, for each
\* property of the top level set of the guide in the order of the guide,
\* exactly one top level row (topic, sort order, name, IIM presence, XMP
\* presence, sync classification), whatever the candidate holds.
C12_FullInventory ==
    Ran("ipmdchecker2") =>
        /\ SelectSeq(out, LAMBDA l : l.kind = "ROW")[1] = csvheader
        /\ Len(TopRows) = Len(techguide.ipmd_top)
        /\ \A i \in 1..Len(TopRows) : IsRowOf(TopRows[i], techguide.ipmd_top[i][2])

\* the descriptor set the context selects
DescriptorSet(ctx) == IF ctx THEN pmdguide.instructure ELSE pmdguide.topwithprefix

\* the tag with every ':' made '_'
Normalized(tag) == [i \in 1..Len(tag) |-> IF tag[i] = ":" THEN "_" ELSE tag[i]]

\* the part of the label before its first '|', the whole label if it has none
BeforeBar(label) ==
    LET bars == {i \in 1..Len(label) : label[i] = "|"}
        n == IF bars = {} THEN Len(label) + 1 ELSE CHOOSE i \in bars : \A j \in bars : i <= j
    IN  SubSeq(label, 1, n - 1)

\* C13: Name resolution. is_iptcpmdpropname(tag, ctx) is true if and only if
\* the tag with every ':' replaced by '_' is a key of the descriptor set that
\* ctx selects, never of the other set; get_iptcpropname(tag, ctx) returns
\* the part of that descriptor's label before the first '|' when the tag is
\* recognized and the tag unchanged when it is not.
C13_NameResolution ==
    Ran("resolver") =>
        LET known == Normalized(tagid) \in DOMAIN DescriptorSet(inctx)
        IN  /\ resolved.is = known
            /\ resolved.name = IF known THEN BeforeBar(DescriptorSet(inctx)[Normalized(tagid)].label)
                                ELSE tagid

\* x:l, known at the top level only, resolved to the L of its label L|l
C13_Witness ==
    /\ Ran("resolver")
    /\ tagid = TagLoc /\ ~inctx
    /\ Normalized(tagid) \notin DOMAIN DescriptorSet(TRUE)
    /\ resolved = [is |-> TRUE, name |-> <<"L">>]

\* the COMMENT lines among the lines written
Notes == SelectSeq(out, LAMBDA l : l.kind = "COMMENT")

\* C14: Comment note. A run of check_mainpmd, of either script, writes
\* exactly one COMMENT line, with the content of the candidate's
\* File:Comment, if and only if the candidate has that field, and writes it
\* before every MISSING and CHANGED line; a File:Comment of the reference
\* alone gives no COMMENT line.
C14_CommentNote ==
    (Ran("ipmdchecker") \/ Ran("checkfor_missing_props")) =>
        IF TagComment \in Keys(ipmdtest)
        THEN Notes = <<Comment(Get(ipmdtest, TagComment))>> /\ out[1].kind = "COMMENT"
        ELSE Notes = <<>>

\* the descriptor names a structure that has no descriptor set
NamesMissingSet(ipmdprop) ==
    InvStructId(ipmdprop) # "" /\ InvStructId(ipmdprop) \notin DOMAIN techguide.ipmd_struct

\* the rows written for the properties of the structure below the property
\* named l2 of the structure of the top level property named l1
RowsBelow(l1, l2) ==
    SelectSeq(Rows, LAMBDA l : l.cells[3] = l1 /\ l.cells[4] = l2 /\ l.cells[5] # <<"x">>)

\* the rows written for the properties of the structure of the top level property named l1
RowsOfStruct(l1) == SelectSeq(Rows, LAMBDA l : l.cells[3] = l1 /\ l.cells[4] # <<"x">>)

\* the row of the property named l2 of the structure of the top level property named l1
HasStructRow(l1, l2) ==
    \E j \in 1..Len(Rows) : Rows[j].cells[3] = l1 /\ Rows[j].cells[4] = l2 /\ Rows[j].cells[5] = <<"x">>

\* C15: A structure without a descriptor set is skipped. When a top level
\* property names such a structure, the investigation writes the row of the
\* property, no row for the structure, and the row of every following
\* property, and ends without an exception; when a property of a structure
\* names such a structure and its row is written, no row is written below
\* it and the row of the following property of the structure is written.
C15_MissingSetSkipped ==
    Ran("ipmdchecker2") =>
        /\ \A i \in 1..Len(techguide.ipmd_top) :
              LET label(j) == Field(techguide.ipmd_top[j][2], "label", <<"UNKNOWN-ERROR">>)
              IN  NamesMissingSet(techguide.ipmd_top[i][2]) =>
                      /\ pc = "done"
                      /\ RowsOfStruct(label(i)) = <<>>
                      /\ \A j \in i..Len(techguide.ipmd_top) : HasRow(label(j))
        /\ \A i \in 1..Len(techguide.ipmd_top) :
              LET l1 == Field(techguide.ipmd_top[i][2], "label", <<"UNKNOWN-ERROR">>)
              IN  HasStructRow(l1, <<"R1">>) =>
                      (RowsBelow(l1, <<"R1">>) = <<>> /\ HasStructRow(l1, <<"R2">>))

\* the title names S9, which has no set, the candidate holds a structure
\* there, and the row of the creator follows the row of the title
C15_Witness ==
    /\ pc = "done" /\ script = "ipmdchecker2"
    /\ NamesMissingSet(techguide.ipmd_top[1][2])
    /\ "etXMP" \in DOMAIN techguide.ipmd_top[1][2]
    /\ TagXmpTitle \in Keys(ipmdtest) /\ IsDict(Get(ipmdtest, TagXmpTitle))
    /\ Len(Rows) = 2
    /\ Rows[2].cells[3] = creatorNames.label

RECURSIVE KeyPaths(_, _, _)
\* the full paths of the keys of the dict x and of the dicts below it, keys
\* of their guides throughout: the parent path, '->' and the display name,
\* with the index segment the check shows for an item of a list
KeyPaths(x, path, instructure) ==
    UNION {
        LET k == x.kv[i][1]
            v == x.kv[i][2]
            kpath == PathOf(path, k, instructure)
        IN  IF ~InGuide(k, instructure) THEN {}
            ELSE {kpath}
                 \cup (IF IsDict(v) THEN KeyPaths(v, kpath, TRUE) ELSE {})
                 \cup (IF IsList(v)
                       THEN UNION {
                               IF IsDict(v.e[n])
                               THEN KeyPaths(v.e[n], kpath \o <<"[">> \o ListIndexShown(n - 1) \o <<"]">>, TRUE)
                               ELSE {} : n \in 1..Len(v.e)}
                       ELSE {})
        : i \in 1..Len(x.kv)}

\* C17: Every finding carries its full path. Each MISSING and each CHANGED
\* line a run of ipmdchecker.py writes, the CHANGED line for a plain item of
\* a list included, names the full path of a key of the reference: the path
\* of its parents, '->' and the display name of the key.
C17_FullPath ==
    Ran("ipmdchecker") =>
        \A i \in 1..Len(out) :
            out[i].kind \in {"MISSING", "CHANGED"} => out[i].path \in KeyPaths(ipmdref, <<>>, FALSE)

\* the MISSING lines among lines, in their order
MissingOf(lines) == SelectSeq(lines, LAMBDA l : l.kind = "MISSING")

\* C18: Value comparison and structural recursion are independent. The
\* MISSING lines a run of ipmdchecker.py writes are, in the same order, the
\* MISSING lines the run on the same trees with the other setting of
\* comparevalues writes: comparevalues adds CHANGED lines only and never
\* adds, removes or pre-empts a MISSING line.
C18_CompareIndependent ==
    Ran("ipmdchecker") =>
        MissingOf(out) = MissingOf(check_mainpmd(ipmdref, ipmdtest, ~comparevalues).out)

\* the largest number of properties of a structure of the guide
MaxSetLen ==
    LET lens == {Len(techguide.ipmd_struct[sid]) : sid \in DOMAIN techguide.ipmd_struct}
    IN  CHOOSE n \in lens : \A k \in lens : k <= n

\* C19: Investigation recursion is bounded. investigate_ipmdstructure does
\* nothing at a level below 2 or above 3, so with structure sets that name
\* each other in a cycle an investigation still ends, every row it writes is
\* a row of level 1, 2 or 3 (three name cells), and it writes no more rows
\* than the properties of three levels can give.
C19_RecursionBounded ==
    Ran("ipmdchecker2") =>
        /\ \A i \in 1..Len(Rows) : Len(Rows[i].cells) = 8
        /\ Len(Rows) <= Len(techguide.ipmd_top) * (1 + MaxSetLen + MaxSetLen * MaxSetLen)
        /\ \A level \in {0, 1, 4, 5} : \A sid \in DOMAIN techguide.ipmd_struct :
              investigate_ipmdstructure(<<<<"P">>>>, <<"t">>, <<"s">>, level, sid, ipmdtest, techguide)
                  = Ok(<<>>)

\* the title is an S1, whose P2 is an S2, whose Q1 names S1 again: the
\* candidate holds all three levels and the row of Q1 is the deepest written
C19_Witness ==
    /\ pc = "done" /\ script = "ipmdchecker2"
    /\ InvStructId(techguide.ipmd_top[1][2]) = "S1"
    /\ \E j \in 1..Len(Rows) :
          /\ Rows[j].cells[4] = <<"P2">> /\ Rows[j].cells[5] = <<"Q1">>
          /\ Rows[j].cells[7] = <<"found">>
====
